---- MODULE Spec2Model ----
(***************************************************************************)
(* The decision spinner of src/app/App.js: the option list with its text   *)
(* input (addItem, removeItem), the alert modal (showCustomAlert), the     *)
(* spin of the wheel (spinWheel and the Animated.timing it starts) and the *)
(* wheel's sector geometry (DecisionWheel, describeArc).                   *)
(*                                                                         *)
(* Strings are sequences of one-character strings, so that trim() and      *)
(* toLowerCase() are computed.  Angles are exact rationals: an angle of d  *)
(* degrees is the integer d * Scale, Scale being a common multiple of      *)
(* every option count the model reaches, so that 360 / N and 180 / N are   *)
(* exact (the rounding of IEEE doubles is not modelled).                   *)
(*                                                                         *)
(* Spec is the whole app.  Its state space is the product of the list, the *)
(* input, the modal and the animation, so the properties are checked under *)
(* three specifications that each keep a part of the user's repertoire:    *)
(*   SpecList   the app from its initial state, with a user who types,     *)
(*              submits, removes and closes alerts;                        *)
(*   SpecSpin   the app from its initial state, with a user who spins,     *)
(*              removes and closes alerts while the animation runs;        *)
(*   SpecWheel  the spin and the drawing of the wheel for every list       *)
(*              length up to MaxOptions.                                   *)
(* Every behaviour of SpecList and of SpecSpin is a behaviour of Spec.     *)
(***************************************************************************)
EXTENDS Integers, Sequences, FiniteSets, TLC

VARIABLES
    options,        \* useState: the option list, a sequence of [id, name]
    newItem,        \* useState: the text of the input field
    isAppReady,     \* useState: the app left its loading screen
    isInitialized,  \* useState of DecisionWheel: the wheel is drawn
    modalVisible,   \* useState: the alert modal is shown
    modalTitle,     \* useState: its title
    modalMessage,   \* useState: its message
    spinValue,      \* the Animated.Value: the wheel's rotation, in 1/Scale degrees
    running,        \* the timing animations in flight on spinValue
    now             \* the millisecond clock: the latest reading of Date.now()

vars == <<options, newItem, isAppReady, isInitialized, modalVisible, modalTitle,
          modalMessage, spinValue, running, now>>

----------------------------------------------------------------------------
(* Bounds of the model *)

\* addItem is modelled while the list is shorter than this, and SpecWheel
\* starts from every list length up to this
MaxOptions == 8
\* the clock is read while at most this many milliseconds have passed
MaxTicks == 1
\* an animation is observed at this many equidistant points of its progress
AnimFrames == 3

\* the clock reading when the app starts (any reading of a real clock is
\* far beyond the ids '1'..'5' of the initial options)
ClockStart == 10

----------------------------------------------------------------------------
(* Exact angles *)

RECURSIVE Gcd(_, _)
Gcd(a, b) == IF b = 0 THEN a ELSE Gcd(b, a % b)

RECURSIVE LcmUpTo(_)
LcmUpTo(n) == IF n <= 1 THEN 1 ELSE LET l == LcmUpTo(n - 1) IN (l * n) \div Gcd(l, n)

\* 2 * lcm(1..MaxOptions): every 360 / N, 180 / N and their halves are integers
Scale == 2 * LcmUpTo(MaxOptions)

Deg(d) == d * Scale

----------------------------------------------------------------------------
(* Strings *)

UpperCase == <<"A", "B", "C", "D", "E", "F", "G", "H", "I", "J", "K", "L", "M",
               "N", "O", "P", "Q", "R", "S", "T", "U", "V", "W", "X", "Y", "Z">>
LowerCase == <<"a", "b", "c", "d", "e", "f", "g", "h", "i", "j", "k", "l", "m",
               "n", "o", "p", "q", "r", "s", "t", "u", "v", "w", "x", "y", "z">>

WhiteSpace == {" "}

\* String.prototype.toLowerCase, on one character
LowerChar(c) ==
    IF \E i \in 1..Len(UpperCase) : UpperCase[i] = c
    THEN LowerCase[CHOOSE i \in 1..Len(UpperCase) : UpperCase[i] = c]
    ELSE c

\* String.prototype.toLowerCase
toLowerCase(s) == [i \in 1..Len(s) |-> LowerChar(s[i])]

\* a bug: the text taken as typed
trimNothing(s) == s

\* String.prototype.trim: the text without its leading and trailing white space
trim(s) ==
    LET inked == {i \in 1..Len(s) : s[i] \notin WhiteSpace}
    IN  IF inked = {} THEN <<>>
        ELSE LET first == CHOOSE i \in inked : \A j \in inked : i <= j
                 last  == CHOOSE i \in inked : \A j \in inked : j <= i
             IN  SubSeq(s, first, last)

Digit == <<"0", "1", "2", "3", "4", "5", "6", "7", "8", "9">>

\* Number.prototype.toString of a non-negative integer: its decimal digits
RECURSIVE toString(_)
toString(n) == IF n < 10 THEN <<Digit[n + 1]>>
               ELSE Append(toString(n \div 10), Digit[(n % 10) + 1])

\* a template literal `${prefix}${item}${suffix}`
Template(prefix, item, suffix) == [prefix |-> prefix, item |-> item, suffix |-> suffix]
\* a string literal used as a message
Literal(text) == Template(text, <<>>, "")

----------------------------------------------------------------------------
(* The texts the modelled user types *)

Blank2       == <<" ", " ">>
Padded_a     == <<" ", "a", " ">>
Padded_A     == <<"A", " ">>
ReadABook    == <<"R", "e", "a", "d", " ", "a", " ", "B", "o", "o", "k">>

Inputs == {<<>>, Blank2, Padded_a, Padded_A, ReadABook}

InitialOptions ==
    << [id |-> <<"1">>, name |-> <<"G", "o", " ", "f", "o", "r", " ", "a", " ", "w", "a", "l", "k">>],
       [id |-> <<"2">>, name |-> <<"R", "e", "a", "d", " ", "a", " ", "b", "o", "o", "k">>],
       [id |-> <<"3">>, name |-> <<"W", "a", "t", "c", "h", " ", "a", " ", "m", "o", "v", "i", "e">>],
       [id |-> <<"4">>, name |-> <<"P", "l", "a", "y", " ", "a", " ", "g", "a", "m", "e">>],
       [id |-> <<"5">>, name |-> <<"W", "o", "r", "k", " ", "o", "n", " ", "a", " ", "h", "o", "b", "b", "y">>] >>

----------------------------------------------------------------------------
(* The alert modal *)

\* what a handler asks of showCustomAlert: nothing, or a title and a message
noAlert == [shown |-> FALSE, title |-> "", message |-> Literal("")]
alert(title, message) == [shown |-> TRUE, title |-> title, message |-> message]

\* showCustomAlert(title, message): setModalTitle, setModalMessage and
\* setModalVisible(true); a handler that does not call it leaves the modal alone
showCustomAlert(a) ==
    IF a.shown
    THEN /\ modalTitle' = a.title
         /\ modalMessage' = a.message
         /\ modalVisible' = TRUE
    ELSE UNCHANGED <<modalTitle, modalMessage, modalVisible>>

\* the modal's OK button (modalOnConfirm) and its onRequestClose
confirmModal ==
    /\ modalVisible
    /\ modalVisible' = FALSE
    /\ UNCHANGED <<options, newItem, isAppReady, isInitialized, modalTitle,
                   modalMessage, spinValue, running, now>>

\* The screen takes the user's presses and key strokes once the loading
\* screen is gone and while no Modal covers it; the modelled user starts once
\* the wheel is drawn
screenIsOpen == isAppReady /\ isInitialized /\ ~modalVisible

----------------------------------------------------------------------------
(* The option list *)

\* onChangeText={setNewItem}
setNewItem(text) ==
    /\ screenIsOpen
    /\ newItem' = text
    /\ UNCHANGED <<options, isAppReady, isInitialized, modalVisible, modalTitle,
                   modalMessage, spinValue, running, now>>

\* a bug: the names compared as they are written
isDuplicateCaseSensitive(opts, trimmedItem) ==
    \E i \in 1..Len(opts) : opts[i].name = trimmedItem

\* a bug: only the submitted name is lowered, the listed names are not
isDuplicateListedAsWritten(opts, trimmedItem) ==
    \E i \in 1..Len(opts) : opts[i].name = toLowerCase(trimmedItem)

\* options.some(item => item.name.toLowerCase() === trimmedItem.toLowerCase())
isDuplicate(opts, trimmedItem) ==
    \E i \in 1..Len(opts) : toLowerCase(opts[i].name) = toLowerCase(trimmedItem)

\* [...options, { id: newId, name: trimmedItem }]
withNewOption(opts, newId, trimmedItem) ==
    Append(opts, [id |-> newId, name |-> trimmedItem])

\* addItem, as a function of the state it reads and of the reading of
\* Date.now(): the list and the input it sets, and the alert it shows
addItemOutcome(opts, text, reading) ==
    LET trimmedItem == trim(text)
    IN  IF trimmedItem # <<>>
        THEN IF isDuplicate(opts, trimmedItem)
             THEN [ options |-> opts, newItem |-> text,
                    alert   |-> alert("Duplicate Option",
                                      Template("'", trimmedItem, "' is already in the list!")) ]
             ELSE [ options |-> withNewOption(opts, toString(reading), trimmedItem),
                    newItem |-> <<>>,
                    alert   |-> noAlert ]
        ELSE [ options |-> opts, newItem |-> text,
               alert   |-> alert("Input Required",
                                 Literal("Please type an option before submitting.")) ]

\* onPress={addItem}, onSubmitEditing={addItem}; Date.now() = reading
addItem(reading) ==
    /\ screenIsOpen
    /\ reading \in now..(ClockStart + MaxTicks)
    /\ LET out == addItemOutcome(options, newItem, reading)
       IN  /\ Len(out.options) <= MaxOptions
           /\ options' = out.options
           /\ newItem' = out.newItem
           /\ showCustomAlert(out.alert)
           /\ now' = IF out.options # options THEN reading ELSE now
    /\ UNCHANGED <<isAppReady, isInitialized, spinValue, running>>

\* a bug: only the first option with the id is taken out
withoutIdFirstOnly(opts, idToRemove) ==
    LET hits == {k \in 1..Len(opts) : opts[k].id = idToRemove}
    IN  IF hits = {} THEN opts
        ELSE LET first == CHOOSE k \in hits : \A j \in hits : k <= j
             IN  SubSeq(opts, 1, first - 1) \o SubSeq(opts, first + 1, Len(opts))

\* options.filter(item => item.id !== idToRemove)
withoutId(opts, idToRemove) == SelectSeq(opts, LAMBDA item : item.id # idToRemove)

\* onPress={() => removeItem(optionItem.id)}: the remove button of the
\* option listed at position i
removeItem(i) ==
    /\ screenIsOpen
    /\ i \in 1..Len(options)
    /\ options' = withoutId(options, options[i].id)
    /\ UNCHANGED <<newItem, isAppReady, isInitialized, modalVisible, modalTitle,
                   modalMessage, spinValue, running, now>>

----------------------------------------------------------------------------
(* The wheel: DecisionWheel and describeArc *)

\* a bug: the circle divided among one sector more than there are options
wheelSegmentAngleOffByOne(opts) ==
    IF Len(opts) > 0 THEN Deg(360) \div (Len(opts) + 1) ELSE 0

\* const segmentAngle = options.length > 0 ? 360 / options.length : 0
wheelSegmentAngle(opts) == IF Len(opts) > 0 THEN Deg(360) \div Len(opts) ELSE 0

\* const startAngle = index * segmentAngle
startAngle(opts, index) == index * wheelSegmentAngle(opts)

\* const endAngle = (index + 1) * segmentAngle
endAngle(opts, index) == (index + 1) * wheelSegmentAngle(opts)

\* const textAngle = startAngle + (segmentAngle / 2): the sector's midpoint
textAngle(opts, index) == startAngle(opts, index) + (wheelSegmentAngle(opts) \div 2)

\* a bug: < where describeArc has <=
largeArcFlagStrict(start, end) == IF end - start < Deg(180) THEN "0" ELSE "1"

\* describeArc: const largeArcFlag = endAngle - startAngle <= 180 ? '0' : '1'
largeArcFlag(start, end) == IF end - start <= Deg(180) THEN "0" ELSE "1"

\* options.map((option, index) => ...): the sectors of one rendering, in order
Sectors(opts) ==
    [k \in 1..Len(opts) |->
        [ key          |-> opts[k].id,
          label        |-> opts[k].name,
          startAngle   |-> startAngle(opts, k - 1),
          endAngle     |-> endAngle(opts, k - 1),
          largeArcFlag |-> largeArcFlag(startAngle(opts, k - 1), endAngle(opts, k - 1)),
          textAngle    |-> textAngle(opts, k - 1) ] ]

\* What the wheel shows: "Loading..." until it is initialized, the sectors
\* of the current options after that
drawnSectors == IF isAppReady /\ isInitialized THEN Sectors(options) ELSE <<>>

\* <G origin={center} rotation={-90}>: the rotation of the group of sectors
groupRotation == -90

\* styles.arrowContainer (position: 'absolute', bottom: -15, left: '50%'): the
\* arrow sits at the bottom of the wheel, 180 degrees clockwise from its top
pointerPosition == 180

\* Where a direction of the wheel's own frame (polarToCartesian: 0 is up,
\* clockwise) shows on the screen, in [0, 360) clockwise from the top, once the
\* group is rotated by groupRotation and the wheel by rotation
\* (rotationValue.interpolate maps the value d to 'd deg')
screenAngle(angle, rotation) == (angle + Deg(groupRotation) + rotation) % Deg(360)

----------------------------------------------------------------------------
(* The spin *)

numFullSpins == 5

\* const segmentAngle = 360 / options.length
spinSegmentAngle(n) == Deg(360) \div n

\* const targetCenterAngle = (randomIndex * segmentAngle) + (segmentAngle / 2)
targetCenterAngle(n, randomIndex) ==
    (randomIndex * spinSegmentAngle(n)) + (spinSegmentAngle(n) \div 2)

\* a bug: the offset reduced once more modulo 360
finalRotationModulo(n, randomIndex) ==
    (numFullSpins * Deg(360))
        + ((Deg(360) - ((targetCenterAngle(n, randomIndex) + Deg(90)) % Deg(360))) % Deg(360))

\* a bug: the rotation of the group of sectors left out of the offset
finalRotationNoGroup(n, randomIndex) ==
    (numFullSpins * Deg(360))
        + (Deg(360) - (targetCenterAngle(n, randomIndex) % Deg(360)))

\* a bug: four full turns
finalRotationFourSpins(n, randomIndex) ==
    (4 * Deg(360))
        + (Deg(360) - ((targetCenterAngle(n, randomIndex) + Deg(90)) % Deg(360)))

\* const finalRotation = (numFullSpins * 360) + (360 - (targetCenterAngle + 90) % 360)
finalRotation(n, randomIndex) ==
    (numFullSpins * Deg(360))
        + (Deg(360) - ((targetCenterAngle(n, randomIndex) + Deg(90)) % Deg(360)))

\* a bug: the option after the one drawn
selectedItemNext(opts, randomIndex) == opts[((randomIndex + 1) % Len(opts)) + 1].name

\* const selectedItem = options[randomIndex].name
selectedItem(opts, randomIndex) == opts[randomIndex + 1].name

\* a bug: the wheel not reset
resetValueMissing(current) == current

\* spinValue.setValue(0): the value the wheel is reset to
resetValue(current) == 0

\* Animated.timing(spinValue, {toValue: finalRotation}).start(callback): the
\* animation runs from the value spinValue holds when it starts to toValue; the
\* callback holds the locals of the spinWheel call that made it
timing(from, opts, randomIndex) ==
    [ fromValue    |-> from,
      toValue      |-> finalRotation(Len(opts), randomIndex),
      randomIndex  |-> randomIndex,
      selectedItem |-> selectedItem(opts, randomIndex) ]

\* the callback given to start(): showCustomAlert("Your Decision!", ...)
decision(anim) ==
    alert("Your Decision!", Template("How about: ", anim.selectedItem, "?"))

\* a bug: the empty list noticed only after the wheel is stopped and reset
spinWheelOutcomeLateCheck(opts, value, anims, randomIndex) ==
    IF Len(opts) = 0
    THEN [ spinValue |-> 0, running |-> <<>>,
           alert     |-> alert("No Options", Literal("Please add some options first!")) ]
    ELSE [ spinValue |-> 0,
           running   |-> <<[ fromValue    |-> 0,
                             toValue      |-> finalRotation(Len(opts), randomIndex),
                             randomIndex  |-> randomIndex,
                             selectedItem |-> opts[randomIndex + 1].name ]>>,
           alert     |-> IF anims # <<>>
                         THEN alert("Your Decision!",
                                    Template("How about: ", anims[1].selectedItem, "?"))
                         ELSE noAlert ]

\* spinWheel, as a function of the state it reads and of the index it draws:
\* the value and the animations it leaves, and the alert it shows.
\* spinValue.stopAnimation() ends the animation in flight, whose callback runs
\* at once (with finished: false, which it does not look at)
spinWheelOutcome(opts, value, anims, randomIndex) ==
    IF Len(opts) = 0
    THEN [ spinValue |-> value, running |-> anims,
           alert     |-> alert("No Options", Literal("Please add some options first!")) ]
    ELSE [ spinValue |-> resetValue(value),
           running   |-> <<timing(resetValue(value), opts, randomIndex)>>,
           alert     |-> IF anims # <<>> THEN decision(anims[1]) ELSE noAlert ]

\* onPress={spinWheel}; Math.floor(Math.random() * options.length) = randomIndex
spinWheel(randomIndex) ==
    /\ screenIsOpen
    /\ randomIndex \in 0..(IF Len(options) = 0 THEN 0 ELSE Len(options) - 1)
    /\ LET out == spinWheelOutcome(options, spinValue, running, randomIndex)
       IN  /\ spinValue' = out.spinValue
           /\ running' = out.running
           /\ showCustomAlert(out.alert)
    /\ UNCHANGED <<options, newItem, isAppReady, isInitialized, now>>

\* the value of a timing animation at k / AnimFrames of its way
frameValue(anim, k) ==
    anim.fromValue + (((anim.toValue - anim.fromValue) * k) \div AnimFrames)

\* a frame of the animation in flight: the wheel turns on
animationFrame(k) ==
    /\ running # <<>>
    /\ k \in 1..(AnimFrames - 1)
    /\ frameValue(running[1], k) > spinValue
    /\ spinValue' = frameValue(running[1], k)
    /\ UNCHANGED <<options, newItem, isAppReady, isInitialized, modalVisible,
                   modalTitle, modalMessage, running, now>>

\* the last frame: the value reaches toValue and the callback runs
animationEnd ==
    /\ running # <<>>
    /\ spinValue' = running[1].toValue
    /\ running' = Tail(running)
    /\ showCustomAlert(decision(running[1]))
    /\ UNCHANGED <<options, newItem, isAppReady, isInitialized, now>>

----------------------------------------------------------------------------
(* Timers *)

\* setTimeout(() => setIsAppReady(true), 150)
appReadyTimer ==
    /\ ~isAppReady
    /\ isAppReady' = TRUE
    /\ UNCHANGED <<options, newItem, isInitialized, modalVisible, modalTitle,
                   modalMessage, spinValue, running, now>>

\* DecisionWheel, mounted once the app is ready:
\* setTimeout(() => setIsInitialized(true), 100)
wheelInitTimer ==
    /\ isAppReady
    /\ ~isInitialized
    /\ isInitialized' = TRUE
    /\ UNCHANGED <<options, newItem, isAppReady, modalVisible, modalTitle,
                   modalMessage, spinValue, running, now>>

----------------------------------------------------------------------------
(* Specifications *)

\* the state after the first rendering with the list opts
InitWith(opts) ==
    /\ options = opts
    /\ newItem = <<>>
    /\ isAppReady = FALSE
    /\ isInitialized = FALSE
    /\ modalVisible = FALSE
    /\ modalTitle = ""
    /\ modalMessage = Literal("")
    /\ spinValue = 0
    /\ running = <<>>
    /\ now = ClockStart

Init == InitWith(InitialOptions)

UserTypes   == \E text \in Inputs : setNewItem(text)
UserSubmits == \E reading \in ClockStart..(ClockStart + MaxTicks) : addItem(reading)
UserRemoves == \E i \in 1..MaxOptions : removeItem(i)
UserSpins   == \E randomIndex \in 0..(MaxOptions - 1) : spinWheel(randomIndex)
WheelTurns  == \E k \in 1..AnimFrames : animationFrame(k)

Next ==
    \/ appReadyTimer
    \/ wheelInitTimer
    \/ UserTypes
    \/ UserSubmits
    \/ UserRemoves
    \/ UserSpins
    \/ WheelTurns
    \/ animationEnd
    \/ confirmModal

Spec == Init /\ [][Next]_vars

NextList ==
    \/ appReadyTimer
    \/ wheelInitTimer
    \/ UserTypes
    \/ UserSubmits
    \/ UserRemoves
    \/ confirmModal

SpecList == Init /\ [][NextList]_vars

NextSpin ==
    \/ appReadyTimer
    \/ wheelInitTimer
    \/ UserRemoves
    \/ UserSpins
    \/ WheelTurns
    \/ animationEnd
    \/ confirmModal

SpecSpin == Init /\ [][NextSpin]_vars

\* the animation's timer runs: an animation in flight reaches its last frame
FairSpecSpin == SpecSpin /\ WF_vars(animationEnd)

\* a list of n options as the user may have typed it: option k is named
\* "o" followed by k and was added at the clock reading ClockStart + k
typedOptions(n) ==
    [k \in 1..n |-> [id |-> toString(ClockStart + k), name |-> <<"o">> \o toString(k)]]

InitWheel == \E n \in 0..MaxOptions : InitWith(typedOptions(n))

NextWheel ==
    \/ appReadyTimer
    \/ wheelInitTimer
    \/ UserSpins
    \/ WheelTurns
    \/ animationEnd
    \/ confirmModal

SpecWheel == InitWheel /\ [][NextWheel]_vars

----------------------------------------------------------------------------
(* Properties of the spin's rotation target and of the wheel's sectors,    *)
(* under SpecWheel (the list does not change there, so an animation in     *)
(* flight was requested with the list as it is)                            *)

\* the animations in flight
Running == {running[i] : i \in 1..Len(running)}

\* the spin of the option announced has run to its end
SpinCompleted == running = <<>> /\ modalTitle = "Your Decision!"

\* C1 as stated: for every N >= 1 and every winning index, the midpoint of
\* the winning sector (winningIndex*360/N + 180/N, carried through the -90
\* degree rotation of the group) lies, once the wheel is rotated by the
\* rotation target, at the top of the wheel (0 degrees), where the claim has
\* the pointer.
C1_MidpointAtTop ==
    \A a \in Running :
        screenAngle(textAngle(options, a.randomIndex), a.toValue) = Deg(0)

\* C1, amended: the pointer is mounted at the bottom of the wheel (180
\* degrees from its top), and for every N >= 1 and every winning index the
\* midpoint of the winning sector, as the wheel draws it, lies exactly at the
\* pointer once the wheel is rotated by the rotation target: both for the
\* target of an animation in flight and for the value the wheel holds when the
\* spin has ended and its option is announced.
C1_MidpointAtPointer ==
    /\ Deg(pointerPosition) = Deg(180)
    /\ \A a \in Running :
        /\ a.randomIndex \in 0..(Len(options) - 1)
        /\ screenAngle(textAngle(options, a.randomIndex), a.toValue) = Deg(pointerPosition)
    /\ SpinCompleted =>
        \E k \in 1..Len(drawnSectors) :
            /\ drawnSectors[k].label = modalMessage.item
            /\ screenAngle(drawnSectors[k].textAngle, spinValue) = Deg(pointerPosition)

\* a spin of a wheel of three options has ended and announces its option
C1_Witness ==
    /\ SpinCompleted
    /\ modalVisible
    /\ Len(options) = 3
    /\ spinValue > Deg(numFullSpins * 360)

\* the midpoint of the winning sector as the claims write it,
\* winningIndex*360/N + 180/N
MidpointOf(n, winningIndex) == ((winningIndex * Deg(360)) + Deg(180)) \div n

\* C2 as stated: for every N >= 1 and every winning index the rotation target
\* is numFullSpins*360 + alignmentOffset with numFullSpins = 5 and
\* alignmentOffset = (360 - ((targetCenterAngle + 90) mod 360)) mod 360.
C2_TargetWithReducedOffset ==
    \A a \in Running :
        a.toValue = Deg(5 * 360)
            + ((Deg(360) - ((MidpointOf(Len(options), a.randomIndex) + Deg(90)) % Deg(360)))
                  % Deg(360))

\* C2, amended: for every N >= 1 and every winning index the rotation target
\* is 5*360 + (360 - ((targetCenterAngle + 90) mod 360)), the offset not being
\* reduced modulo 360 again: it is 360 and the target 2160, not 0 and 1800,
\* when targetCenterAngle + 90 is a multiple of 360 (N = 2, index 1).  (N=5,
\* index 0) gives 2034, (N=4, index 2) gives 1845 and (N=1, index 0) gives 1890.
C2_TargetAsComputed ==
    /\ \A a \in Running :
        a.toValue = Deg(5 * 360)
            + (Deg(360) - ((MidpointOf(Len(options), a.randomIndex) + Deg(90)) % Deg(360)))
    /\ \A a \in Running :
        /\ (Len(options) = 5 /\ a.randomIndex = 0) => a.toValue = Deg(2034)
        /\ (Len(options) = 4 /\ a.randomIndex = 2) => a.toValue = Deg(1845)
        /\ (Len(options) = 1 /\ a.randomIndex = 0) => a.toValue = Deg(1890)
        /\ (Len(options) = 2 /\ a.randomIndex = 1) => a.toValue = Deg(2160)

\* the second of two options is drawn: its midpoint is at 270 degrees
C2_Witness ==
    \E a \in Running :
        /\ Len(options) = 2
        /\ a.randomIndex = 1
        /\ MidpointOf(2, 1) = Deg(270)
        /\ a.toValue = Deg(2160)

\* C3 as stated: the rotation target is strictly greater than 1800 and
\* strictly less than 2160.
C3_TargetStrictlyInside ==
    \A a \in Running : a.toValue > Deg(1800) /\ a.toValue < Deg(2160)

\* C3, amended: the rotation target is strictly greater than 1800 and at most
\* 2160; it is 2160 exactly when the winning sector's midpoint plus 90 is a
\* multiple of 360 (N = 2, index 1; N = 6, index 4).
C3_TargetInRange ==
    \A a \in Running :
        /\ a.toValue > Deg(1800)
        /\ a.toValue <= Deg(2160)
        /\ a.toValue = Deg(2160)
              <=> (MidpointOf(Len(options), a.randomIndex) + Deg(90)) % Deg(360) = 0

\* a spin whose target is six full turns
C3_Witness ==
    \E a \in Running : a.toValue = Deg(2160) /\ spinValue < a.toValue

\* C7: for a list of N >= 1 options the wheel draws exactly N sectors, sector
\* i from i*360/N to (i+1)*360/N: each is 360/N wide, the start angles
\* increase strictly, and the sectors cover [0, 360) with no gap and no
\* overlap; for N = 0 it draws no sector and its segment angle is 0 (no
\* division by zero).
C7_SectorsPartitionCircle ==
    LET n == Len(options)
        s == drawnSectors
    IN  (isAppReady /\ isInitialized) =>
            /\ Len(s) = n
            /\ n = 0 => (s = <<>> /\ wheelSegmentAngle(options) = 0)
            /\ \A k \in 1..n :
                /\ s[k].startAngle * n = (k - 1) * Deg(360)
                /\ s[k].endAngle * n = k * Deg(360)
                /\ (s[k].endAngle - s[k].startAngle) * n = Deg(360)
                /\ s[k].startAngle >= 0 /\ s[k].startAngle < Deg(360)
                /\ k < n => /\ s[k].startAngle < s[k + 1].startAngle
                            /\ s[k].endAngle = s[k + 1].startAngle
            /\ n >= 1 => (s[1].startAngle = 0 /\ s[n].endAngle = Deg(360))

\* a wheel of seven sectors is drawn
C7_Witness ==
    /\ isAppReady /\ isInitialized
    /\ Len(drawnSectors) = 7
    /\ drawnSectors[7].endAngle = Deg(360)

\* C8: the large-arc flag of a sector is 0 exactly when endAngle - startAngle
\* <= 180 and 1 otherwise; for the sectors the wheel draws it is 1 when N = 1
\* and 0 for every N >= 2, N = 2 (a width of exactly 180) included.
C8_LargeArcOnlyForOneSector ==
    \A k \in 1..Len(drawnSectors) :
        LET sector == drawnSectors[k]
        IN  /\ sector.largeArcFlag \in {"0", "1"}
            /\ sector.largeArcFlag = "0" <=> sector.endAngle - sector.startAngle <= Deg(180)
            /\ sector.largeArcFlag = "1" <=> Len(options) = 1
            /\ Len(options) = 2 => sector.largeArcFlag = "0"

\* a wheel of two sectors, each exactly 180 degrees wide, is drawn
C8_Witness ==
    /\ Len(drawnSectors) = 2
    /\ drawnSectors[1].endAngle - drawnSectors[1].startAngle = Deg(180)
    /\ drawnSectors[1].largeArcFlag = "0"

----------------------------------------------------------------------------
(* Properties of a spin request and of the animation, under SpecSpin *)

\* C4: a spin requested while the option list is empty presents the
\* "No Options" message and does nothing else: no index is drawn, no animation
\* is started or stopped, and the rotation value is what it was.
C4_EmptySpinOnlyAlerts ==
    [][ (UserSpins /\ Len(options) = 0) =>
            /\ modalVisible'
            /\ modalTitle' = "No Options"
            /\ modalMessage' = Literal("Please add some options first!")
            /\ running' = running
            /\ spinValue' = spinValue
            /\ options' = options ]_vars

\* the list was emptied while the wheel was turning, and a spin was requested
C4_Witness ==
    /\ Len(options) = 0
    /\ modalVisible
    /\ modalTitle = "No Options"
    /\ running # <<>>
    /\ spinValue > 0 /\ spinValue < running[1].toValue

\* C9: at most one rotation animation is in flight; a spin requested while
\* one is running stops it and resets the rotation value to 0 before the new
\* one starts, so every animation begins from 0, never from a partly rotated
\* value.
C9_OneAnimationFromZero ==
    /\ [](/\ Len(running) <= 1
          /\ \A a \in Running :
                /\ a.fromValue = 0
                /\ spinValue >= 0 /\ spinValue < a.toValue)
    /\ [][ (UserSpins /\ Len(options) >= 1) =>
                /\ spinValue' = 0
                /\ Len(running') = 1
                /\ running'[1].fromValue = 0 ]_vars

\* a spin was requested while the wheel was turning: the wheel is back at 0
\* with the new animation in flight and the stopped one's callback has run
C9_Witness ==
    /\ running # <<>>
    /\ spinValue = 0
    /\ modalVisible
    /\ modalTitle = "Your Decision!"

\* C10: a spin started with N >= 1 options that no later spin request
\* interrupts eventually ends its animation, and at its end the user is told
\* ("Your Decision!") the name of the option that stood at the drawn index in
\* the list when the spin was requested.
C10_SpinEndsAndAnnounces ==
    /\ (running # <<>>) ~> (running = <<>> /\ modalVisible /\ modalTitle = "Your Decision!")
    /\ [][ (UserSpins /\ Len(options) >= 1) =>
                /\ running'[1].randomIndex \in 0..(Len(options) - 1)
                /\ running'[1].selectedItem = options[running'[1].randomIndex + 1].name ]_vars
    /\ [][ (running # <<>> /\ running' = <<>>) =>
                /\ spinValue' = running[1].toValue
                /\ modalVisible'
                /\ modalTitle' = "Your Decision!"
                /\ modalMessage' = Template("How about: ", running[1].selectedItem, "?") ]_vars

\* a spin has ended at its target and announces the third of the initial
\* options
C10_Witness ==
    /\ running = <<>>
    /\ modalVisible
    /\ modalTitle = "Your Decision!"
    /\ modalMessage.item = InitialOptions[3].name
    /\ spinValue > Deg(numFullSpins * 360)

----------------------------------------------------------------------------
(* Properties of a submission, under SpecList *)

\* the text without the spaces before and after it
RECURSIVE Stripped(_)
Stripped(s) ==
    IF s = <<>> THEN s
    ELSE IF Head(s) = " " THEN Stripped(Tail(s))
    ELSE IF s[Len(s)] = " " THEN Stripped(SubSeq(s, 1, Len(s) - 1))
    ELSE s

\* two characters are the same letter, in either case
SameLetter(c, d) ==
    \/ c = d
    \/ \E j \in 1..Len(UpperCase) : {c, d} = {UpperCase[j], LowerCase[j]}

\* two texts are equal when compared case-insensitively
SameIgnoringCase(s, t) ==
    /\ Len(s) = Len(t)
    /\ \A i \in 1..Len(s) : SameLetter(s[i], t[i])

\* C5: submitting a name that, trimmed, equals the name of an option of the
\* list when compared case-insensitively is rejected: the "Duplicate Option"
\* message is presented and the option sequence is exactly what it was.
C5_DuplicateRejected ==
    [][ ( /\ UserSubmits
          /\ Stripped(newItem) # <<>>
          /\ \E i \in 1..Len(options) : SameIgnoringCase(options[i].name, Stripped(newItem)) )
        =>  /\ modalVisible'
            /\ modalTitle' = "Duplicate Option"
            /\ modalMessage' = Template("'", Stripped(newItem), "' is already in the list!")
            /\ options' = options ]_vars

\* "Read a Book" was submitted while "Read a book" is in the list
C5_Witness ==
    /\ modalVisible
    /\ modalTitle = "Duplicate Option"
    /\ modalMessage.item = ReadABook
    /\ newItem = ReadABook
    /\ options = InitialOptions

\* C6: submitting an empty or whitespace-only entry is rejected: the "Input
\* Required" message is presented and the option sequence is exactly what it
\* was.
C6_BlankRejected ==
    [][ (UserSubmits /\ \A i \in 1..Len(newItem) : newItem[i] = " ")
        =>  /\ modalVisible'
            /\ modalTitle' = "Input Required"
            /\ modalMessage' = Literal("Please type an option before submitting.")
            /\ options' = options ]_vars

\* two spaces were submitted
C6_Witness ==
    /\ modalVisible
    /\ modalTitle = "Input Required"
    /\ newItem = Blank2

----------------------------------------------------------------------------
(* Properties of the option list, under SpecList *)

\* C11: in every state reached from the five initial options by submissions
\* and removals, every option name is non-empty and no two options of the
\* list have names that are equal when compared case-insensitively.
C11_NamesDistinct ==
    /\ \A i \in 1..Len(options) :
        /\ options[i].name # <<>>
        /\ \E k \in 1..Len(options[i].name) : options[i].name[k] # " "
    /\ \A i, j \in 1..Len(options) :
        i # j => ~SameIgnoringCase(options[i].name, options[j].name)

\* "Read a book" was removed, and "Read a Book" and "A" were submitted and
\* taken into the list
C11_Witness ==
    /\ \E i \in 1..Len(options) : options[i].name = ReadABook
    /\ \E i \in 1..Len(options) : options[i].name = <<"A">>
    /\ \A i \in 1..Len(options) : options[i].name # InitialOptions[2].name

\* C12: in every state reached by submissions and removals no two options of
\* the list have the same id: the id of a newly added option (the clock's
\* reading at the submission, as a string) differs from the id of every option
\* already in the list, also when two submissions are accepted without the
\* clock advancing between them.
C12_IdsDistinct ==
    \A i, j \in 1..Len(options) : i # j => options[i].id # options[j].id

\* the ids a removal may be asked for: those of the initial options and the
\* readings of the clock, as strings
KnownIds ==
    {InitialOptions[k].id : k \in 1..Len(InitialOptions)}
        \cup {toString(t) : t \in ClockStart..(ClockStart + MaxTicks)}

\* C15: removeItem(id) takes out of the list every option whose id is the
\* given id and nothing else: the other options stay, in their order, with
\* their ids and names; the rotation value and the input text are unchanged and
\* no message is presented; when no option has the id the list is unchanged.
C15_RemoveOnlyTheId ==
    /\ [][ \A i \in 1..MaxOptions :
             removeItem(i) =>
                LET id   == options[i].id
                    kept == {k \in 1..Len(options) : options[k].id # id}
                IN  /\ \A k \in 1..Len(options') : options'[k].id # id
                    /\ Len(options') = Cardinality(kept)
                    /\ \A k \in kept :
                          options'[Cardinality({j \in kept : j <= k})] = options[k]
                    /\ spinValue' = spinValue
                    /\ running' = running
                    /\ newItem' = newItem
                    /\ modalVisible' = modalVisible
                    /\ modalTitle' = modalTitle
                    /\ modalMessage' = modalMessage ]_vars
    /\ [](\A id \in KnownIds :
             (\A k \in 1..Len(options) : options[k].id # id) => withoutId(options, id) = options)

\* the second and the fourth option were removed while a text was typed
C15_Witness ==
    /\ options = <<InitialOptions[1], InitialOptions[3], InitialOptions[5]>>
    /\ newItem = Padded_a
    /\ ~modalVisible

----------------------------------------------------------------------------
(* Properties of the announcement, under SpecSpin *)

\* a "Your Decision!" notification is presented
DecisionShown == modalVisible /\ modalTitle = "Your Decision!"

\* the direction of the wheel's own frame that shows at the pointer, the
\* wheel being rotated by spinValue
wheelAngleAtPointer ==
    (Deg(pointerPosition) - Deg(groupRotation) - spinValue) % Deg(360)

\* the k-th sector drawn lies at the pointer
AtPointer(k) ==
    /\ drawnSectors[k].startAngle <= wheelAngleAtPointer
    /\ wheelAngleAtPointer < drawnSectors[k].endAngle

\* C13, for the notification a spin presents at its end: the option it names
\* is in the current list and is the option whose sector lies at the pointer
\* on the wheel as currently drawn, also when options were removed while the
\* animation was in flight.
C13_AnnouncedIsAtPointer ==
    (DecisionShown /\ running = <<>>) =>
        \E k \in 1..Len(drawnSectors) :
            /\ options[k].name = modalMessage.item
            /\ drawnSectors[k].label = modalMessage.item
            /\ AtPointer(k)

\* C14: a "Your Decision!" notification is presented only when the rotation
\* value has reached the rotation target of its spin; a spin stopped by a
\* later spin request presents none, so none is shown, naming the abandoned
\* spin's option, while the new spin is running.
C14_AnnouncedOnlyAtTarget ==
    DecisionShown =>
        /\ running = <<>>
        /\ spinValue > Deg(numFullSpins * 360)
        /\ spinValue <= Deg((numFullSpins + 1) * 360)

====
